---- MODULE Spec2Model ----
(***************************************************************************)
(* Model of the IPS patch codec of rom-patcher (src/src/ips.rs,            *)
(* src/src/io_util.rs, src/src/err.rs).                                    *)
(*                                                                         *)
(* One behaviour is one session on one in-memory IPSPatch value:           *)
(*   Write            IPSPatch::write(patch) into a Vec<u8>                *)
(*   OpenSource       the written bytes become a byte source, possibly     *)
(*                    damaged (cut short, bad header, trailing bytes, a    *)
(*                    read that fails with an I/O error)                   *)
(*   Stream*          apply_ips_patch(source, targetS), one loop           *)
(*                    iteration per step                                   *)
(*   ReadFrom*        IPSPatch::read_from(source), one loop iteration per  *)
(*                    step                                                 *)
(*   Apply*           IPSPatch::apply(parsed, targetM), one loop iteration *)
(*                    per step                                             *)
(*   ApplyAgain*      a second IPSPatch::apply(parsed, targetR) on the     *)
(*                    target the first one left                            *)
(* The calls are synchronous and run one after the other.  Targets are     *)
(* Cursor<Vec<u8>> values: a byte vector and a position; a target may be   *)
(* one whose seek, write or truncate fails.                                *)
(***************************************************************************)
EXTENDS Integers, Sequences, FiniteSets, TLC

VARIABLES
    patch,          \* the in-memory IPSPatch handed to write
    target0,        \* the target bytes every apply starts from
    emptyWritePads, \* the target's write contract for an empty buffer
    targetFault,    \* the operation of the target that fails, and from where
    phase,          \* "new" -> "written" -> "run"
    written,        \* the bytes IPSPatch::write produced
    input,          \* the bytes of the byte source
    faultAt,        \* the source fails with an I/O error past this index
    pcS,            \* apply_ips_patch: "idle","header","hunks","done","failed"
    rposS,          \* apply_ips_patch: bytes the reader has consumed
    targetS,        \* apply_ips_patch: the target's bytes
    tposS,          \* apply_ips_patch: the target's cursor position
    resS,           \* apply_ips_patch: the returned Result
    appliedS,       \* apply_ips_patch: the hunks applied so far (history)
    eofAtS,         \* apply_ips_patch: position after the EOF marker (history)
    pcM,            \* read_from/apply: "idle","header","hunks","failed","apply","done","aborted"
    rposM,          \* read_from: bytes the reader has consumed
    parsed,         \* read_from: the patch under construction / returned
    eofAtM,         \* read_from: position after the EOF marker (history)
    idxM,           \* apply: number of hunks of parsed already applied
    targetM,        \* apply: the target's bytes
    tposM,          \* apply: the target's cursor position
    resM,           \* read_from then apply: the returned Result
    pcR,            \* second apply: "idle","apply","done","aborted"
    idxR,           \* second apply: number of hunks of parsed already applied
    targetR,        \* second apply: the target's bytes
    tposR,          \* second apply: the target's cursor position
    resR            \* second apply: the returned Result

vars == << patch, target0, emptyWritePads, targetFault, phase, written, input, faultAt,
           pcS, rposS, targetS, tposS, resS, appliedS, eofAtS,
           pcM, rposM, parsed, eofAtM, idxM, targetM, tposM, resM,
           pcR, idxR, targetR, tposR, resR >>

varsEnv == << patch, target0, emptyWritePads, targetFault, phase, written, input, faultAt >>
varsS == << pcS, rposS, targetS, tposS, resS, appliedS, eofAtS >>
varsM == << pcM, rposM, parsed, eofAtM, idxM, targetM, tposM, resM >>
varsR == << pcR, idxR, targetR, tposR, resR >>

-----------------------------------------------------------------------------
(* Bounds of the model *)

\* most hunks of an in-memory patch
MaxHunks == 2
\* longest initial target ([0, 1, ..., n-1] as in the tests)
MaxTargetLen == 4
\* most bytes cut from the end of the written bytes
MaxCut == 6
\* most bytes before the end of the written bytes at which a read fault sits
MaxFault == 4

-----------------------------------------------------------------------------
(* Small helpers *)

Min(a, b) == IF a < b THEN a ELSE b
Max(a, b) == IF a > b THEN a ELSE b

\* Option<T>: None is the empty sequence, Some(v) a one-element sequence
None == << >>
Some(v) == << v >>

\* vec![b; n]
Repeat(b, n) == [i \in 1..n |-> b]

-----------------------------------------------------------------------------
(* err.rs: Error values and Results *)

NoSource == "None"

\* Error::new(kind).with_description(description), no source
ErrorNew(kind, description) ==
    [tag |-> "Err", kind |-> kind, description |-> description, source |-> NoSource]

\* Error::with_source
with_source(e, source) == [e EXCEPT !.source = source]

ResultNone == [tag |-> "None"]
ResultOk == [tag |-> "Ok"]

-----------------------------------------------------------------------------
(* io_util.rs: primitive codec *)

\* u32::to_u24_be_bytes
to_u24_be_bytes(v) ==
    << (v \div 65536) % 256, (v \div 256) % 256, v % 256 >>

\* u32::from_u24_be_bytes
from_u24_be_bytes(bytes) ==
    bytes[1] * 65536 + bytes[2] * 256 + bytes[3]

\* the bytes of a u16 least significant first
u16_to_le_bytes(v) == << v % 256, (v \div 256) % 256 >>

\* u16::to_be_bytes
u16_to_be_bytes(v) == << (v \div 256) % 256, v % 256 >>

\* u16::from_be_bytes
u16_from_be_bytes(bytes) == bytes[1] * 256 + bytes[2]

\* A byte source: the bytes and, optionally, the index past which reading
\* fails with an I/O error that is not UnexpectedEof.
NoFault == None

\* Read::read_exact of n bytes at position rpos of source src.  A read that
\* fails has consumed what the reader could deliver: the bytes up to the
\* fault, or, when the input ends early, the bytes up to its end (as the
\* readers of std do: &[u8], Cursor and the default read_exact).
read_exact(src, rpos, n) ==
    IF src.faultAt # NoFault /\ rpos + n > src.faultAt[1]
    THEN [ok |-> FALSE, kind |-> "Other", pos |-> Max(rpos, src.faultAt[1])]
    ELSE IF rpos + n > Len(src.bytes)
    THEN [ok |-> FALSE, kind |-> "UnexpectedEof", pos |-> Max(rpos, Len(src.bytes))]
    ELSE [ok |-> TRUE, bytes |-> SubSeq(src.bytes, rpos + 1, rpos + n), pos |-> rpos + n]

\* ReaderExtensions::read_u24_be
read_u24_be(src, rpos, err_message) ==
    LET r == read_exact(src, rpos, 3)
    IN IF r.ok
       THEN [ok |-> TRUE, value |-> from_u24_be_bytes(r.bytes), pos |-> r.pos]
       ELSE [ok |-> FALSE, pos |-> r.pos,
             err |-> with_source(ErrorNew("ParsingError", err_message), r.kind)]

\* ReaderExtensions::read_u16_be
read_u16_be(src, rpos, err_message) ==
    LET r == read_exact(src, rpos, 2)
    IN IF r.ok
       THEN [ok |-> TRUE, value |-> u16_from_be_bytes(r.bytes), pos |-> r.pos]
       ELSE [ok |-> FALSE, pos |-> r.pos,
             err |-> with_source(ErrorNew("ParsingError", err_message), r.kind)]

\* ReaderExtensions::read_u8
read_u8(src, rpos, err_message) ==
    LET r == read_exact(src, rpos, 1)
    IN IF r.ok
       THEN [ok |-> TRUE, value |-> r.bytes[1], pos |-> r.pos]
       ELSE [ok |-> FALSE, pos |-> r.pos,
             err |-> with_source(ErrorNew("ParsingError", err_message), r.kind)]

\* assert_read with the mismatch message for a short read too
assert_read_OneMessage(src, rpos, expected, read_error_message, parse_error_message) ==
    LET r == read_exact(src, rpos, Len(expected))
    IN IF ~r.ok \/ r.bytes # expected
       THEN [ok |-> FALSE, pos |-> r.pos,
             err |-> ErrorNew("ParsingError", parse_error_message)]
       ELSE [ok |-> TRUE, pos |-> r.pos]

\* AssertRead::assert_read
assert_read(src, rpos, expected, read_error_message, parse_error_message) ==
    LET r == read_exact(src, rpos, Len(expected))
    IN IF ~r.ok
       THEN [ok |-> FALSE, pos |-> r.pos,
             err |-> ErrorNew("ParsingError", read_error_message)]
       ELSE IF r.bytes # expected
       THEN [ok |-> FALSE, pos |-> r.pos,
             err |-> ErrorNew("ParsingError", parse_error_message)]
       ELSE [ok |-> TRUE, pos |-> r.pos]

\* a truncate that sets the length: it cuts, or grows with zeros
Truncate_SetLen(bytes, amount) ==
    IF amount < Len(bytes) THEN SubSeq(bytes, 1, amount)
    ELSE bytes \o [i \in 1..(amount - Len(bytes)) |-> 0]

\* Truncate for Vec<u8> (and Cursor<Vec<u8>>, which forwards to it):
\* Vec::truncate drops the bytes from index amount on and never grows.
Truncate(bytes, amount) ==
    IF amount < Len(bytes) THEN SubSeq(bytes, 1, amount) ELSE bytes

-----------------------------------------------------------------------------
(* The target: Cursor<Vec<u8>> as Seek + Write *)

\* a write that ignores the position and appends the buffer
vec_write_Append(bytes, pos, buf) == bytes \o buf

\* Write for Cursor<Vec<u8>>: the bytes between the end of the vector and a
\* position past it are filled with zeros, the buffer is copied at the
\* position and the vector grows to hold it.
vec_write(bytes, pos, buf) ==
    [i \in 1..Max(Len(bytes), pos + Len(buf)) |->
        IF i > pos /\ i <= pos + Len(buf) THEN buf[i - pos]
        ELSE IF i <= Len(bytes) THEN bytes[i]
        ELSE 0]

\* Write::write_all on the target.  For an empty buffer the default
\* write_all never calls write and the target is left alone; a target whose
\* write_all forwards to the resizing write pads up to the position.
write_all(pads, bytes, pos, buf) ==
    IF buf = << >> /\ ~pads THEN bytes ELSE vec_write(bytes, pos, buf)

\* A target T: Write + Seek + Truncate may fail.  A fault names the operation
\* that fails and the byte position from which it does: a seek past limit
\* fails; a write takes the bytes that lie below limit and fails on the
\* first one at or past it; a truncate fails whatever the amount.
NoTargetFault == [op |-> "none", limit |-> 0]

\* the target as a hunk sees it: its write contract and its fault
Io == [pads |-> emptyWritePads, fault |-> targetFault]

\* target.seek(SeekFrom::Start(pos)) on target t = [bytes, pos]
TargetSeek(io, t, pos) ==
    IF io.fault.op = "seek" /\ pos > io.fault.limit
    THEN [ok |-> FALSE, bytes |-> t.bytes, pos |-> t.pos]
    ELSE [ok |-> TRUE, bytes |-> t.bytes, pos |-> pos]

\* target.write_all(buf) on target t = [bytes, pos]
TargetWriteAll(io, t, buf) ==
    LET fit == IF io.fault.op = "write"
               THEN Max(0, Min(Len(buf), io.fault.limit - t.pos))
               ELSE Len(buf)
    IN [ok |-> fit = Len(buf),
        bytes |-> IF fit = 0 /\ buf # << >> THEN t.bytes
                  ELSE write_all(io.pads, t.bytes, t.pos, SubSeq(buf, 1, fit)),
        pos |-> t.pos + fit]

\* target.truncate(amount)
TargetTruncate(io, bytes, amount) ==
    IF io.fault.op = "truncate"
    THEN [ok |-> FALSE, bytes |-> bytes]
    ELSE [ok |-> TRUE, bytes |-> Truncate(bytes, amount)]

-----------------------------------------------------------------------------
(* ips.rs: hunks *)

\* IPSPatch::HEADER = "PATCH"
HEADER == << 80, 65, 84, 67, 72 >>
\* IPSPatch::EOF = "EOF"
EOF == << 69, 79, 70 >>

\* IPSHunk::Regular(IPSRegularHunkData { offset, length, payload })
Regular(offset, length, payload) ==
    [type |-> "Regular", offset |-> offset, length |-> length, payload |-> payload]

\* IPSHunk::RLE(IPSRLEHunkData { offset, run_length, payload })
RLE(offset, run_length, payload) ==
    [type |-> "RLE", offset |-> offset, run_length |-> run_length, payload |-> payload]

\* IPSRegularHunkData::write
RegularWrite(h) ==
    to_u24_be_bytes(h.offset) \o u16_to_be_bytes(h.length) \o h.payload

\* a run-length write without the zero length field
RLEWrite_NoSentinel(h) ==
    to_u24_be_bytes(h.offset) \o u16_to_be_bytes(h.run_length) \o << h.payload >>

\* IPSRLEHunkData::write
RLEWrite(h) ==
    to_u24_be_bytes(h.offset) \o << 0, 0 >> \o u16_to_be_bytes(h.run_length)
        \o << h.payload >>

\* the match of IPSPatch::write on one hunk
HunkWrite(h) == IF h.type = "Regular" THEN RegularWrite(h) ELSE RLEWrite(h)

\* a literal read that takes the bytes there are when the input ends early
RegularRead_Short(src, rpos, offset, length) ==
    LET r == read_exact(src, rpos, Min(length, Max(0, Len(src.bytes) - rpos)))
    IN IF r.ok
       THEN [tag |-> "Hunk", hunk |-> Regular(offset, length, r.bytes), pos |-> r.pos]
       ELSE [tag |-> "Err", pos |-> r.pos,
             err |-> ErrorNew("ParsingError", "Unable to read payload.")]

\* IPSRegularHunkData::read
RegularRead(src, rpos, offset, length) ==
    LET r == read_exact(src, rpos, length)
    IN IF r.ok
       THEN [tag |-> "Hunk", hunk |-> Regular(offset, length, r.bytes), pos |-> r.pos]
       ELSE [tag |-> "Err", pos |-> r.pos,
             err |-> ErrorNew("ParsingError", "Unable to read payload.")]

\* IPSRLEHunkData::read
RLERead(src, rpos, offset) ==
    LET run_length == read_u16_be(src, rpos, "Unable to read RLE run length.")
    IN IF ~run_length.ok
       THEN [tag |-> "Err", pos |-> run_length.pos, err |-> run_length.err]
       ELSE LET payload == read_u8(src, run_length.pos, "Unable to read RLE payload.")
            IN IF ~payload.ok
               THEN [tag |-> "Err", pos |-> payload.pos, err |-> payload.err]
               ELSE [tag |-> "Hunk",
                     hunk |-> RLE(offset, run_length.value, payload.value),
                     pos |-> payload.pos]

\* read_trunc that reports every failed read of the truncate
read_trunc_Strict(src, rpos) ==
    LET r == read_exact(src, rpos, 3)
    IN IF r.ok
       THEN [tag |-> "EOF", trunc |-> Some(from_u24_be_bytes(r.bytes)), pos |-> r.pos]
       ELSE [tag |-> "Err", pos |-> r.pos,
             err |-> ErrorNew("ParsingError", "Unable to read truncate.")]

\* read_trunc that decodes the truncate least significant byte first
read_trunc_LittleEndian(src, rpos) ==
    LET r == read_exact(src, rpos, 3)
    IN IF r.ok
       THEN [tag |-> "EOF",
             trunc |-> Some(r.bytes[3] * 65536 + r.bytes[2] * 256 + r.bytes[1]),
             pos |-> r.pos]
       ELSE IF r.kind # "UnexpectedEof"
       THEN [tag |-> "Err", pos |-> r.pos,
             err |-> ErrorNew("ParsingError", "Unable to read truncate.")]
       ELSE [tag |-> "EOF", trunc |-> None, pos |-> r.pos]

\* IPSHunk::read_trunc.  The short read that yields EOF(None) has consumed
\* the 1 or 2 bytes that followed the marker.
read_trunc(src, rpos) ==
    LET r == read_exact(src, rpos, 3)
    IN IF r.ok
       THEN [tag |-> "EOF", trunc |-> Some(from_u24_be_bytes(r.bytes)), pos |-> r.pos]
       ELSE IF r.kind # "UnexpectedEof"
       THEN [tag |-> "Err", pos |-> r.pos,
             err |-> ErrorNew("ParsingError", "Unable to read truncate.")]
       ELSE [tag |-> "EOF", trunc |-> None, pos |-> r.pos]

\* IPSHunk::try_read_eof: Some(read_trunc) when offset is the EOF marker
try_read_eof(src, rpos, offset) ==
    IF offset = from_u24_be_bytes(EOF) THEN Some(read_trunc(src, rpos)) ELSE None

\* a try_read that takes the end of the input for the EOF marker
try_read_EofAtEnd(src, rpos) ==
    LET offset == read_u24_be(src, rpos, "Unable to parse offset.")
    IN IF ~offset.ok /\ offset.err.source = "UnexpectedEof"
       THEN [tag |-> "EOF", trunc |-> None, pos |-> offset.pos]
       ELSE IF ~offset.ok THEN [tag |-> "Err", pos |-> offset.pos, err |-> offset.err]
       ELSE LET eof == try_read_eof(src, offset.pos, offset.value)
            IN IF eof # None THEN eof[1]
               ELSE LET length == read_u16_be(src, offset.pos, "Unable to read length.")
                    IN IF ~length.ok
                       THEN [tag |-> "Err", pos |-> length.pos, err |-> length.err]
                       ELSE IF length.value = 0
                       THEN RLERead(src, length.pos, offset.value)
                       ELSE RegularRead(src, length.pos, offset.value, length.value)

\* IPSHunk::try_read
try_read(src, rpos) ==
    LET offset == read_u24_be(src, rpos, "Unable to parse offset.")
    IN IF ~offset.ok THEN [tag |-> "Err", pos |-> offset.pos, err |-> offset.err]
       ELSE LET eof == try_read_eof(src, offset.pos, offset.value)
            IN IF eof # None THEN eof[1]
               ELSE LET length == read_u16_be(src, offset.pos, "Unable to read length.")
                    IN IF ~length.ok
                       THEN [tag |-> "Err", pos |-> length.pos, err |-> length.err]
                       ELSE IF length.value = 0
                       THEN RLERead(src, length.pos, offset.value)
                       ELSE RegularRead(src, length.pos, offset.value, length.value)

\* a literal apply that seeks one byte too far
RegularApply_OffByOne(h, io, t) ==
    LET e == ErrorNew("PatchingError", "Unable to apply ips regular hunk.")
        s == TargetSeek(io, t, h.offset + 1)
        w == TargetWriteAll(io, s, h.payload)
    IN IF ~s.ok THEN [res |-> e, bytes |-> s.bytes, pos |-> s.pos]
       ELSE [res |-> IF w.ok THEN ResultOk ELSE e, bytes |-> w.bytes, pos |-> w.pos]

\* IPSRegularHunkData::apply on target t = [bytes, pos]: seek to offset,
\* write_all the payload; the first failure returns the PatchingError
RegularApply(h, io, t) ==
    LET e == ErrorNew("PatchingError", "Unable to apply ips regular hunk.")
        s == TargetSeek(io, t, h.offset)
        w == TargetWriteAll(io, s, h.payload)
    IN IF ~s.ok THEN [res |-> e, bytes |-> s.bytes, pos |-> s.pos]
       ELSE [res |-> IF w.ok THEN ResultOk ELSE e, bytes |-> w.bytes, pos |-> w.pos]

\* a run-length apply that writes the payload byte once
RLEApply_Once(h, io, t) ==
    LET e == ErrorNew("PatchingError", "Unable to apply ips RLE hunk.")
        s == TargetSeek(io, t, h.offset)
        w == TargetWriteAll(io, s, << h.payload >>)
    IN IF ~s.ok THEN [res |-> e, bytes |-> s.bytes, pos |-> s.pos]
       ELSE [res |-> IF w.ok THEN ResultOk ELSE e, bytes |-> w.bytes, pos |-> w.pos]

\* IPSRLEHunkData::apply on target t = [bytes, pos]: seek to offset,
\* write_all vec![payload; run_length]; the first failure returns the
\* PatchingError
RLEApply(h, io, t) ==
    LET e == ErrorNew("PatchingError", "Unable to apply ips RLE hunk.")
        s == TargetSeek(io, t, h.offset)
        w == TargetWriteAll(io, s, Repeat(h.payload, h.run_length))
    IN IF ~s.ok THEN [res |-> e, bytes |-> s.bytes, pos |-> s.pos]
       ELSE [res |-> IF w.ok THEN ResultOk ELSE e, bytes |-> w.bytes, pos |-> w.pos]

\* IPSHunk::apply
HunkApply(h, io, t) ==
    IF h.type = "Regular" THEN RegularApply(h, io, t) ELSE RLEApply(h, io, t)

\* the truncate after the hunks: target.truncate(value) when the patch has
\* one, mapped to the PatchingError when it fails
TruncateStep(io, bytes, truncate) ==
    LET t == TargetTruncate(io, bytes, truncate[1])
    IN IF truncate = None THEN [res |-> ResultOk, bytes |-> bytes]
       ELSE IF t.ok THEN [res |-> ResultOk, bytes |-> t.bytes]
       ELSE [res |-> ErrorNew("PatchingError", "Unable to truncate target."),
             bytes |-> t.bytes]

-----------------------------------------------------------------------------
(* ips.rs: the patch container *)

\* IPSPatch { hunks, truncate }
IPSPatch(hunks, truncate) == [hunks |-> hunks, truncate |-> truncate]

\* IPSPatch::new
IPSPatchNew == IPSPatch(<< >>, None)

RECURSIVE HunksWrite(_)
\* the loop of IPSPatch::write
HunksWrite(hunks) ==
    IF hunks = << >> THEN << >>
    ELSE HunkWrite(Head(hunks)) \o HunksWrite(Tail(hunks))

\* IPSPatch::write into a Vec<u8>
PatchWrite(p) ==
    HEADER \o HunksWrite(p.hunks) \o EOF
        \o (IF p.truncate # None THEN to_u24_be_bytes(p.truncate[1]) ELSE << >>)

\* IPSPatch::read_header
read_header(src, rpos) ==
    assert_read(src, rpos, HEADER, "Unable to parse header.", "Invalid header.")

-----------------------------------------------------------------------------
(* The inputs of a session *)

\* the offset whose three bytes are the EOF marker
EOFValue == from_u24_be_bytes(EOF)

\* the hunks an in-memory patch is built from
HunkSet ==
    { RLE(1, 3, 10),                 \* the run of the tests
      Regular(2, 2, << 11, 12 >>),   \* overlaps the run
      RLE(2, 0, 13),                 \* an empty run
      Regular(5, 1, << 14 >>),       \* a write past the end of the target
      Regular(0, 0, << 0, 2, 9 >>),  \* a literal hunk with a length field of 0
      Regular(1, 258, << 15 >>),     \* length is not the payload's length
      RLE(EOFValue, 1, 1) }          \* an offset equal to the EOF marker

\* the truncate values of an in-memory patch (the last exceeds 24 bits)
TruncSet == { None, Some(3), Some(66051), Some(16777218) }

\* the in-memory patches: IPSPatch::new() with_hunk ... with_truncate
Patches ==
    { IPSPatch(hs, t) :
        hs \in UNION { [1..n -> HunkSet] : n \in 0..MaxHunks }, t \in TruncSet }

\* the initial targets: (0..n).collect()
Targets == { [i \in 1..n |-> i - 1] : n \in { 0, MaxTargetLen } }

\* the faults of a target: none, a seek that fails past byte 1, a write that
\* fails from byte 3 on, a truncate that fails
TargetFaults ==
    { NoTargetFault,
      [op |-> "seek", limit |-> 1],
      [op |-> "write", limit |-> 3],
      [op |-> "truncate", limit |-> 0] }

\* what happens to the written bytes before they are read back
Damages ==
    { << "exact", 0 >> }
    \cup { << "cut", k >> : k \in 1..MaxCut }
    \cup { << "short", n >> : n \in 0..(Len(HEADER) - 1) }
    \cup { << "badheader", i >> : i \in { 1, 4 } }
    \cup { << "extra", n >> : n \in 1..2 }
    \cup { << "fault", k >> : k \in 1..MaxFault }

\* the byte source a damage makes of the written bytes w
Source(w, d) ==
    CASE d[1] = "exact" -> [bytes |-> w, faultAt |-> NoFault]
      [] d[1] = "cut" ->
            [bytes |-> SubSeq(w, 1, Max(0, Len(w) - d[2])), faultAt |-> NoFault]
      [] d[1] = "short" -> [bytes |-> SubSeq(w, 1, d[2]), faultAt |-> NoFault]
      [] d[1] = "badheader" ->
            [bytes |-> [w EXCEPT ![d[2]] = 84], faultAt |-> NoFault]
      [] d[1] = "extra" -> [bytes |-> w \o Repeat(0, d[2]), faultAt |-> NoFault]
      [] d[1] = "fault" -> [bytes |-> w, faultAt |-> Some(Max(0, Len(w) - d[2]))]

\* the byte source of the session
Src == [bytes |-> input, faultAt |-> faultAt]

\* the next read of the offset field finds the EOF marker
AtEofMarker(src, rpos) ==
    LET offset == read_u24_be(src, rpos, "Unable to parse offset.")
    IN offset.ok /\ offset.value = EOFValue

-----------------------------------------------------------------------------
(* The state machine *)

Init ==
    /\ patch \in Patches
    /\ target0 \in Targets
    /\ emptyWritePads \in BOOLEAN
    /\ targetFault \in TargetFaults
    \* a failing target is one of some bytes, with the default write_all,
    \* patched without a truncate or with the truncate to 3
    /\ targetFault # NoTargetFault =>
          /\ target0 # << >>
          /\ ~emptyWritePads
          /\ patch.truncate \in { None, Some(3) }
    /\ phase = "new"
    /\ written = << >>
    /\ input = << >>
    /\ faultAt = NoFault
    /\ pcS = "idle" /\ rposS = 0 /\ targetS = target0 /\ tposS = 0
    /\ resS = ResultNone /\ appliedS = << >> /\ eofAtS = -1
    /\ pcM = "idle" /\ rposM = 0 /\ parsed = IPSPatchNew /\ eofAtM = -1
    /\ idxM = 0 /\ targetM = target0 /\ tposM = 0 /\ resM = ResultNone
    /\ pcR = "idle" /\ idxR = 0 /\ targetR = target0 /\ tposR = 0 /\ resR = ResultNone

\* IPSPatch::write(&patch, &mut Vec::new())
Write ==
    /\ phase = "new"
    /\ written' = PatchWrite(patch)
    /\ phase' = "written"
    /\ UNCHANGED << patch, target0, emptyWritePads, targetFault, input, faultAt,
                    varsS, varsM, varsR >>

\* the written bytes, damaged or not, become the byte source of both calls
OpenSource ==
    /\ phase = "written"
    /\ \E d \in Damages :
          /\ input' = Source(written, d).bytes
          /\ faultAt' = Source(written, d).faultAt
    /\ phase' = "run"
    /\ pcS' = "header"
    /\ pcM' = "header"
    /\ UNCHANGED << patch, target0, emptyWritePads, targetFault, written,
                    rposS, targetS, tposS, resS, appliedS, eofAtS,
                    rposM, parsed, eofAtM, idxM, targetM, tposM, resM, varsR >>

\* an apply_ips_patch that empties the target when the header is refused
StreamHeader_ClearsTarget ==
    /\ pcS = "header"
    /\ LET r == read_header(Src, rposS)
       IN IF r.ok
          THEN /\ pcS' = "hunks"
               /\ rposS' = r.pos
               /\ resS' = resS
               /\ targetS' = targetS
          ELSE /\ pcS' = "failed"
               /\ rposS' = r.pos
               /\ resS' = r.err
               /\ targetS' = << >>
    /\ UNCHANGED << varsEnv, tposS, appliedS, eofAtS, varsM, varsR >>

\* apply_ips_patch: IPSPatch::read_header(patch)?
StreamHeader ==
    /\ pcS = "header"
    /\ LET r == read_header(Src, rposS)
       IN IF r.ok
          THEN /\ pcS' = "hunks"
               /\ rposS' = r.pos
               /\ resS' = resS
          ELSE /\ pcS' = "failed"
               /\ rposS' = r.pos
               /\ resS' = r.err
    /\ UNCHANGED << varsEnv, targetS, tposS, appliedS, eofAtS, varsM, varsR >>

\* apply_ips_patch: one iteration of the loop
StreamStep ==
    /\ pcS = "hunks"
    /\ eofAtS' = IF AtEofMarker(Src, rposS) THEN rposS + Len(EOF) ELSE eofAtS
    /\ LET r == try_read(Src, rposS)
       IN CASE r.tag = "Err" ->
                 /\ pcS' = "failed"
                 /\ resS' = r.err
                 /\ rposS' = r.pos
                 /\ UNCHANGED << targetS, tposS, appliedS >>
            [] r.tag = "Hunk" ->
                 LET t == HunkApply(r.hunk, Io, [bytes |-> targetS, pos |-> tposS])
                 IN /\ targetS' = t.bytes
                    /\ tposS' = t.pos
                    /\ rposS' = r.pos
                    /\ IF t.res = ResultOk
                       THEN /\ appliedS' = Append(appliedS, r.hunk)
                            /\ UNCHANGED << pcS, resS >>
                       ELSE /\ pcS' = "failed"
                            /\ resS' = t.res
                            /\ UNCHANGED appliedS
            [] r.tag = "EOF" ->
                 LET t == TruncateStep(Io, targetS, r.trunc)
                 IN /\ targetS' = t.bytes
                    /\ rposS' = r.pos
                    /\ pcS' = IF t.res = ResultOk THEN "done" ELSE "failed"
                    /\ resS' = t.res
                    /\ UNCHANGED << tposS, appliedS >>
    /\ UNCHANGED << varsEnv, varsM, varsR >>

\* apply_ips_patch has returned
StreamReturned == pcS \in { "done", "failed" }

\* IPSPatch::read_from: Self::read_header(reader)?
ReadFromHeader ==
    /\ StreamReturned
    /\ pcM = "header"
    /\ LET r == read_header(Src, rposM)
       IN IF r.ok
          THEN /\ pcM' = "hunks"
               /\ rposM' = r.pos
               /\ resM' = resM
          ELSE /\ pcM' = "failed"
               /\ rposM' = r.pos
               /\ resM' = r.err
    /\ UNCHANGED << varsEnv, varsS, varsR, parsed, eofAtM, idxM, targetM, tposM >>

\* IPSPatch::read_from: one iteration of the loop
ReadFromStep ==
    /\ StreamReturned
    /\ pcM = "hunks"
    /\ eofAtM' = IF AtEofMarker(Src, rposM) THEN rposM + Len(EOF) ELSE eofAtM
    /\ LET r == try_read(Src, rposM)
       IN CASE r.tag = "Err" ->
                 /\ pcM' = "failed"
                 /\ resM' = r.err
                 /\ rposM' = r.pos
                 /\ UNCHANGED parsed
            [] r.tag = "Hunk" ->
                 /\ parsed' = [parsed EXCEPT !.hunks = Append(@, r.hunk)]
                 /\ rposM' = r.pos
                 /\ UNCHANGED << pcM, resM >>
            [] r.tag = "EOF" ->
                 /\ parsed' = [parsed EXCEPT !.truncate = r.trunc]
                 /\ rposM' = r.pos
                 /\ pcM' = "apply"
                 /\ UNCHANGED resM
    /\ UNCHANGED << varsEnv, varsS, varsR, idxM, targetM, tposM >>

\* an apply loop that walks self.hunks from the back
ApplyStep_Reversed ==
    /\ pcM = "apply"
    /\ idxM < Len(parsed.hunks)
    /\ LET t == HunkApply(parsed.hunks[Len(parsed.hunks) - idxM], Io,
                          [bytes |-> targetM, pos |-> tposM])
       IN /\ targetM' = t.bytes
          /\ tposM' = t.pos
          /\ IF t.res = ResultOk
             THEN /\ idxM' = idxM + 1
                  /\ UNCHANGED << pcM, resM >>
             ELSE /\ pcM' = "aborted"
                  /\ resM' = t.res
                  /\ UNCHANGED idxM
    /\ UNCHANGED << varsEnv, varsS, varsR, rposM, parsed, eofAtM >>

\* an apply loop that drops the Result of hunk.apply and goes on
ApplyStep_IgnoresError ==
    /\ pcM = "apply"
    /\ idxM < Len(parsed.hunks)
    /\ LET t == HunkApply(parsed.hunks[idxM + 1], Io, [bytes |-> targetM, pos |-> tposM])
       IN /\ targetM' = t.bytes
          /\ tposM' = t.pos
    /\ idxM' = idxM + 1
    /\ UNCHANGED << varsEnv, varsS, varsR, pcM, rposM, parsed, eofAtM, resM >>

\* IPSPatch::apply: one iteration of the loop over self.hunks; hunk.apply(target)?
\* returns the hunk's error at once
ApplyStep ==
    /\ pcM = "apply"
    /\ idxM < Len(parsed.hunks)
    /\ LET t == HunkApply(parsed.hunks[idxM + 1], Io, [bytes |-> targetM, pos |-> tposM])
       IN /\ targetM' = t.bytes
          /\ tposM' = t.pos
          /\ IF t.res = ResultOk
             THEN /\ idxM' = idxM + 1
                  /\ UNCHANGED << pcM, resM >>
             ELSE /\ pcM' = "aborted"
                  /\ resM' = t.res
                  /\ UNCHANGED idxM
    /\ UNCHANGED << varsEnv, varsS, varsR, rposM, parsed, eofAtM >>

\* an apply that returns without the truncate
ApplyFinish_NoTruncate ==
    /\ pcM = "apply"
    /\ idxM = Len(parsed.hunks)
    /\ pcM' = "done"
    /\ resM' = ResultOk
    /\ UNCHANGED << varsEnv, varsS, varsR, rposM, parsed, eofAtM, idxM, targetM, tposM >>

\* an apply that truncates to 0 when the patch has no truncate
ApplyFinish_TruncateDefault ==
    /\ pcM = "apply"
    /\ idxM = Len(parsed.hunks)
    /\ LET t == TruncateStep(Io, targetM,
                             IF parsed.truncate # None THEN parsed.truncate ELSE Some(0))
       IN /\ targetM' = t.bytes
          /\ pcM' = IF t.res = ResultOk THEN "done" ELSE "aborted"
          /\ resM' = t.res
    /\ UNCHANGED << varsEnv, varsS, varsR, rposM, parsed, eofAtM, idxM, tposM >>

\* IPSPatch::apply: the truncate after the loop, and the return
ApplyFinish ==
    /\ pcM = "apply"
    /\ idxM = Len(parsed.hunks)
    /\ LET t == TruncateStep(Io, targetM, parsed.truncate)
       IN /\ targetM' = t.bytes
          /\ pcM' = IF t.res = ResultOk THEN "done" ELSE "aborted"
          /\ resM' = t.res
    /\ UNCHANGED << varsEnv, varsS, varsR, rposM, parsed, eofAtM, idxM, tposM >>

\* the caller applies the parsed patch a second time, to the target the
\* first IPSPatch::apply has left
ApplyAgain ==
    /\ pcM = "done"
    /\ pcR = "idle"
    /\ pcR' = "apply"
    /\ targetR' = targetM
    /\ tposR' = tposM
    /\ UNCHANGED << varsEnv, varsS, varsM, idxR, resR >>

\* the second IPSPatch::apply: one iteration of the loop over self.hunks
ApplyAgainStep ==
    /\ pcR = "apply"
    /\ idxR < Len(parsed.hunks)
    /\ LET t == HunkApply(parsed.hunks[idxR + 1], Io, [bytes |-> targetR, pos |-> tposR])
       IN /\ targetR' = t.bytes
          /\ tposR' = t.pos
          /\ IF t.res = ResultOk
             THEN /\ idxR' = idxR + 1
                  /\ UNCHANGED << pcR, resR >>
             ELSE /\ pcR' = "aborted"
                  /\ resR' = t.res
                  /\ UNCHANGED idxR
    /\ UNCHANGED << varsEnv, varsS, varsM >>

\* the second IPSPatch::apply: the truncate after the loop, and the return
ApplyAgainFinish ==
    /\ pcR = "apply"
    /\ idxR = Len(parsed.hunks)
    /\ LET t == TruncateStep(Io, targetR, parsed.truncate)
       IN /\ targetR' = t.bytes
          /\ pcR' = IF t.res = ResultOk THEN "done" ELSE "aborted"
          /\ resR' = t.res
    /\ UNCHANGED << varsEnv, varsS, varsM, idxR, tposR >>

Next ==
    \/ Write
    \/ OpenSource
    \/ StreamHeader
    \/ StreamStep
    \/ ReadFromHeader
    \/ ReadFromStep
    \/ ApplyStep
    \/ ApplyFinish
    \/ ApplyAgain
    \/ ApplyAgainStep
    \/ ApplyAgainFinish

Spec == Init /\ [][Next]_vars

-----------------------------------------------------------------------------
(* Vocabulary of the properties *)

\* IPSPatch::read_from has returned Ok(parsed)
ReadFromOk == pcM \in { "apply", "done", "aborted" }

\* IPSPatch::read_from has returned
ReadFromReturned == pcM \in { "apply", "done", "aborted", "failed" }

\* the call has returned the PatchingError of a failed seek, write or truncate
IsPatchingError(res) == res.tag = "Err" /\ res.kind = "PatchingError"

\* the call has returned a ParsingError with this description
IsParsingError(res, description) ==
    /\ res.tag = "Err"
    /\ res.kind = "ParsingError"
    /\ res.description = description

\* the byte source is the written bytes, undamaged
ExactSource == phase = "run" /\ input = written /\ faultAt = NoFault

\* the first n bytes of the source are delivered without an I/O failure
Readable(n) == faultAt = NoFault \/ faultAt[1] >= n

\* the three bytes after position pos, big-endian
U24At(pos) == input[pos + 1] * 65536 + input[pos + 2] * 256 + input[pos + 3]

\* the bytes a hunk writes: position p (from 0) is one of them, and its value
HunkLen(h) == IF h.type = "Regular" THEN Len(h.payload) ELSE h.run_length
Covers(h, p) == h.offset <= p /\ p < h.offset + HunkLen(h)
HunkByte(h, p) == IF h.type = "Regular" THEN h.payload[p - h.offset + 1] ELSE h.payload

\* after: every byte in [offset, offset + length) is the hunk's, every byte
\* that existed before and lies outside is as before, and nothing is dropped
HunkEffect(h, before, after) ==
    /\ Len(after) >= Len(before)
    /\ \A p \in 0..(Len(after) - 1) :
          /\ Covers(h, p) => after[p + 1] = HunkByte(h, p)
          /\ (~Covers(h, p) /\ p < Len(before)) => after[p + 1] = before[p + 1]
    /\ HunkLen(h) > 0 => Len(after) >= h.offset + HunkLen(h)

\* this step of IPSPatch::apply applies hunk idxM + 1 of parsed
ApplyStepTaken == pcM = "apply" /\ idxM' = idxM + 1

\* this step of apply_ips_patch applies the hunk it has just read
StreamApplyTaken == Len(appliedS') = Len(appliedS) + 1

-----------------------------------------------------------------------------
(* C1 *)

\* C1 as stated: whatever the patch bytes, once apply_ips_patch and the
\* parse-then-apply path have both returned, the two targets hold the same
\* bytes.
C1_AnyBytesSameTarget ==
    (StreamReturned /\ pcM \in { "done", "aborted", "failed" }) => targetS = targetM

\* C1 amended: when IPSPatch::read_from parses the patch bytes successfully,
\* apply_ips_patch on the same bytes returns what IPSPatch::apply of the
\* parsed patch returns (Ok, or the same PatchingError of the target) and
\* leaves the same target bytes.
C1_ParsedBytesSameTarget ==
    (StreamReturned /\ pcM \in { "done", "aborted" }) =>
        /\ resS = resM
        /\ pcM = "done" => (pcS = "done" /\ resS = ResultOk)
        /\ targetS = targetM

\* both paths have applied a hunk and a truncate and changed the target
C1_Witness ==
    /\ pcS = "done" /\ pcM = "done"
    /\ Len(parsed.hunks) >= 1
    /\ parsed.truncate # None
    /\ targetM # target0
    /\ targetS = targetM

-----------------------------------------------------------------------------
(* C2 *)

\* no literal hunk of p has a length field of 0
NoZeroLiteral(p) ==
    \A i \in 1..Len(p.hunks) :
        p.hunks[i].type = "Regular" => p.hunks[i].length # 0

\* what the wire format can carry of p: offsets and truncate fit 24 bits, no
\* offset is the EOF marker, a literal payload has exactly length bytes
Representable(p) ==
    /\ \A i \in 1..Len(p.hunks) :
          /\ p.hunks[i].offset < 16777216
          /\ p.hunks[i].offset # EOFValue
          /\ p.hunks[i].type = "Regular" =>
                Len(p.hunks[i].payload) = p.hunks[i].length
    /\ p.truncate # None => p.truncate[1] < 16777216

\* C2 as stated: for every patch without a literal hunk of length field 0,
\* read_from of the bytes of write succeeds and returns an equal patch.
C2_RoundTripNoZeroLiteral ==
    (ExactSource /\ NoZeroLiteral(patch) /\ ReadFromReturned) =>
        (ReadFromOk /\ parsed = patch)

\* C2 amended: the round trip holds for every patch without a literal hunk
\* of length field 0 in which, besides, every literal payload has exactly
\* length bytes, no offset is 0x454F46 ("EOF"), and the offsets and the
\* truncate fit 24 bits.
C2_RoundTripRepresentable ==
    (ExactSource /\ NoZeroLiteral(patch) /\ Representable(patch) /\ ReadFromReturned) =>
        (ReadFromOk /\ parsed = patch)

\* a patch of two hunks, one of each variant, and a truncate has come back
C2_Witness ==
    /\ ExactSource /\ ReadFromOk
    /\ NoZeroLiteral(patch) /\ Representable(patch)
    /\ Len(patch.hunks) = 2
    /\ patch.hunks[1].type # patch.hunks[2].type
    /\ patch.truncate = Some(66051)
    /\ parsed = patch

-----------------------------------------------------------------------------
(* C3 *)

\* the bytes of the source after the EOF marker read_from has found
AfterEofM == Len(input) - eofAtM

\* C3 as stated: when read_from has reached the EOF marker and 1 or 2 bytes
\* follow it, it returns the ParsingError "Unable to read truncate.".
C3_ShortTruncateFails ==
    (eofAtM # -1 /\ AfterEofM \in { 1, 2 }) =>
        IsParsingError(resM, "Unable to read truncate.")

\* C3 amended: when read_from has reached the EOF marker and 1 or 2 bytes
\* follow it, the short read counts as the end of the input: read_from
\* returns the patch with truncate absent.  "Unable to read truncate." is
\* returned exactly when the read of the truncate fails with an I/O error
\* other than an unexpected end of input.
C3_ShortTruncateIsAbsent ==
    /\ (eofAtM # -1 /\ AfterEofM \in { 1, 2 } /\ faultAt = NoFault) =>
          (ReadFromOk /\ parsed.truncate = None)
    /\ (resM.tag = "Err" /\ resM.description = "Unable to read truncate.") <=>
          (eofAtM # -1 /\ faultAt # NoFault /\ eofAtM + 3 > faultAt[1])

\* read_from has returned a patch from an input with 1 or 2 bytes after EOF
C3_Witness ==
    /\ pcM = "done"
    /\ eofAtM # -1
    /\ AfterEofM \in { 1, 2 }
    /\ faultAt = NoFault
    /\ parsed.truncate = None

-----------------------------------------------------------------------------
(* C4 *)

\* C4: a patch returned by read_from has a truncate exactly when at least 3
\* bytes follow the EOF marker, and the truncate is then the big-endian value
\* of the first 3 of them; with no byte after the marker it is absent.
C4_TruncateIffThreeBytes ==
    ReadFromOk =>
        /\ eofAtM # -1
        /\ SubSeq(input, eofAtM - 2, eofAtM) = EOF
        /\ (parsed.truncate # None) <=> (AfterEofM >= 3)
        /\ (AfterEofM >= 3) => parsed.truncate = Some(U24At(eofAtM))
        /\ (AfterEofM = 0) => parsed.truncate = None

\* a truncate of three different bytes has been read
C4_Witness ==
    /\ ReadFromOk
    /\ AfterEofM = 3
    /\ parsed.truncate = Some(66051)

-----------------------------------------------------------------------------
(* C5 *)

\* C5: a step that applies a literal hunk whose payload has exactly length
\* bytes makes byte offset + i of the target payload[i] for every i below
\* length and leaves every other existing byte as it was - in
\* IPSPatch::apply and in apply_ips_patch.
C5_LiteralHunkEffect ==
    [][ /\ ( /\ ApplyStepTaken
             /\ parsed.hunks[idxM + 1].type = "Regular"
             /\ Len(parsed.hunks[idxM + 1].payload) = parsed.hunks[idxM + 1].length )
           => HunkEffect(parsed.hunks[idxM + 1], targetM, targetM')
        /\ ( /\ StreamApplyTaken
             /\ appliedS'[Len(appliedS')].type = "Regular"
             /\ Len(appliedS'[Len(appliedS')].payload) = appliedS'[Len(appliedS')].length )
           => HunkEffect(appliedS'[Len(appliedS')], targetS, targetS')
      ]_vars

\* a literal hunk has just been applied inside the target and has changed it
C5_Witness ==
    /\ pcM = "apply"
    /\ idxM = 1
    /\ parsed.hunks[1] = Regular(2, 2, << 11, 12 >>)
    /\ targetM = << 0, 1, 11, 12 >>
    /\ targetS = targetM

-----------------------------------------------------------------------------
(* C6 *)

\* the run-length hunk a step has applied has this effect on the target
RunEffects(Effect(_, _, _)) ==
    /\ ( ApplyStepTaken /\ parsed.hunks[idxM + 1].type = "RLE" )
          => Effect(parsed.hunks[idxM + 1], targetM, targetM')
    /\ ( StreamApplyTaken /\ appliedS'[Len(appliedS')].type = "RLE" )
          => Effect(appliedS'[Len(appliedS')], targetS, targetS')

\* C6 as stated: the run fills [offset, offset + run_length) with the payload
\* byte and leaves the other existing bytes alone; an empty run changes
\* neither a byte nor the length of the target.
RunEffectStated(h, before, after) ==
    /\ HunkEffect(h, before, after)
    /\ h.run_length = 0 => after = before

\* C6 amended: as stated, except that an empty run is only sure to leave the
\* length of the target alone when offset is not past the end of the target;
\* past the end, the target is either left alone or grown with zeros up to
\* offset, as the target's own write of an empty buffer does.
RunEffectAmended(h, before, after) ==
    /\ HunkEffect(h, before, after)
    /\ (h.run_length = 0 /\ h.offset <= Len(before)) => after = before
    /\ (h.run_length = 0 /\ h.offset > Len(before)) =>
          \/ after = before
          \/ after = before \o Repeat(0, h.offset - Len(before))

\* C6 as stated, of every step of IPSPatch::apply and apply_ips_patch that
\* applies a run-length hunk
C6_RunHunkEffectStated == [][ RunEffects(RunEffectStated) ]_vars

\* C6 amended, of every step of IPSPatch::apply and apply_ips_patch that
\* applies a run-length hunk
C6_RunHunkEffect == [][ RunEffects(RunEffectAmended) ]_vars

\* the run of the tests has been applied, then an empty run inside the
\* target, by both paths, on a target that pads on an empty write
C6_Witness ==
    /\ pcM = "apply"
    /\ idxM = 2
    /\ parsed.hunks = << RLE(1, 3, 10), RLE(2, 0, 13) >>
    /\ target0 = << 0, 1, 2, 3 >>
    /\ targetM = << 0, 10, 10, 10 >>
    /\ emptyWritePads
    /\ targetS = targetM

-----------------------------------------------------------------------------
(* C7 *)

\* the truncate apply_ips_patch reads after the EOF marker at position pos
StreamTruncate(pos) ==
    IF Len(input) >= pos + 3 THEN Some(U24At(pos)) ELSE None

\* the target is cut to at most n bytes and never grown
ClampedTo(before, after, n) ==
    /\ Len(after) = Min(Len(before), n)
    /\ after = SubSeq(before, 1, Len(after))

\* C7: the truncate is the last step of IPSPatch::apply and apply_ips_patch,
\* taken when every hunk has been applied; it leaves min(length after the
\* hunks, N) bytes, which are the bytes the hunks left, and never grows the
\* target; nothing is written after it.
C7_TruncateAfterHunks ==
    [][ /\ ( pcM = "apply" /\ pcM' = "done" ) =>
              /\ idxM = Len(parsed.hunks)
              /\ parsed.truncate # None =>
                    ClampedTo(targetM, targetM', parsed.truncate[1])
              /\ parsed.truncate = None => targetM' = targetM
        /\ ( pcS = "hunks" /\ pcS' = "done" ) =>
              /\ StreamTruncate(eofAtS') # None =>
                    ClampedTo(targetS, targetS', StreamTruncate(eofAtS')[1])
              /\ StreamTruncate(eofAtS') = None => targetS' = targetS
              /\ ReadFromOk' => appliedS' = parsed.hunks'
        /\ pcM = "done" => targetM' = targetM
        /\ pcS = "done" => (targetS' = targetS /\ appliedS' = appliedS)
      ]_vars

\* a run then a truncate to 3 have cut a target the run left at 4 bytes
C7_Witness ==
    /\ pcM = "done" /\ pcS = "done"
    /\ parsed = IPSPatch(<< RLE(1, 3, 10) >>, Some(3))
    /\ target0 = << 0, 1, 2, 3 >>
    /\ targetM = << 0, 10, 10 >>
    /\ targetS = << 0, 10, 10 >>

-----------------------------------------------------------------------------
(* C8 *)

\* the last of the first n hunks that covers position p (0: none does)
RECURSIVE LastCover(_, _, _)
LastCover(hunks, n, p) ==
    IF n = 0 THEN 0
    ELSE IF Covers(hunks[n], p) THEN n
    ELSE LastCover(hunks, n - 1, p)

\* with the first n hunks applied and no other: a byte a hunk covers is the
\* byte of the last hunk that covers it, a byte of the initial target that
\* none of them covers is as it was
LastWriteWins(hunks, n, target) ==
    \A p \in 0..(Len(target) - 1) :
        LET last == LastCover(hunks, n, p)
        IN /\ last # 0 => target[p + 1] = HunkByte(hunks[last], p)
           /\ (last = 0 /\ p < Len(target0)) => target[p + 1] = target0[p + 1]

\* C8: hunks are applied in the order of the patch (IPSPatch::apply) or of
\* the byte stream (apply_ips_patch): when the first n have been applied
\* (and no hunk after them has failed on the target part-way) the bytes are
\* those of the first n only, and where hunks overlap the byte is the one of
\* the last hunk covering it.
C8_SequenceOrderLastWins ==
    /\ ~IsPatchingError(resM) => LastWriteWins(parsed.hunks, idxM, targetM)
    /\ ~IsPatchingError(resS) => LastWriteWins(appliedS, Len(appliedS), targetS)
    /\ (ReadFromOk /\ pcS = "done") => appliedS = parsed.hunks
    /\ (ExactSource /\ ReadFromOk /\ NoZeroLiteral(patch) /\ Representable(patch)) =>
          parsed.hunks = patch.hunks

\* two overlapping hunks have been applied by both paths: the run wrote
\* bytes 1..3 and the literal hunk after it overwrote bytes 2..3
C8_Witness ==
    /\ pcM = "done" /\ pcS = "done"
    /\ parsed.hunks = << RLE(1, 3, 10), Regular(2, 2, << 11, 12 >>) >>
    /\ parsed.truncate = None
    /\ targetM = << 0, 10, 11, 12 >>
    /\ targetS = << 0, 10, 11, 12 >>

-----------------------------------------------------------------------------
(* C9 *)

\* C9: applying the empty patch succeeds and leaves the bytes and the length
\* of the target as they were, through IPSPatch::apply of an empty IPSPatch
\* and through apply_ips_patch of "PATCH" + "EOF".
C9_EmptyPatchKeepsTarget ==
    /\ (pcM = "done" /\ parsed = IPSPatchNew) =>
          (resM = ResultOk /\ targetM = target0)
    /\ (phase = "run" /\ input = HEADER \o EOF /\ faultAt = NoFault /\ StreamReturned) =>
          (pcS = "done" /\ resS = ResultOk /\ targetS = target0)

\* both paths have applied the empty patch to a target of some bytes
C9_Witness ==
    /\ input = HEADER \o EOF
    /\ faultAt = NoFault
    /\ pcS = "done" /\ pcM = "done"
    /\ parsed = IPSPatchNew
    /\ target0 # << >>
    /\ targetM = target0 /\ targetS = target0

-----------------------------------------------------------------------------
(* C10 *)

\* the header check of a call that is past it (pc) and has result res
HeaderOutcome(pc, res) ==
    (phase = "run" /\ pc \notin { "idle", "header" }) =>
        /\ (Len(input) >= Len(HEADER) /\ Readable(Len(HEADER))
                /\ SubSeq(input, 1, Len(HEADER)) # HEADER) =>
              IsParsingError(res, "Invalid header.")
        /\ Len(input) < Len(HEADER) =>
              IsParsingError(res, "Unable to parse header.")
        /\ (Len(input) >= Len(HEADER) /\ Readable(Len(HEADER))
                /\ SubSeq(input, 1, Len(HEADER)) = HEADER) =>
              (res.tag = "Err" =>
                  res.description \notin { "Invalid header.", "Unable to parse header." })

\* C10: in IPSPatch::read_from and in apply_ips_patch, an input of at least
\* 5 bytes (read without an I/O failure) that does not start with "PATCH"
\* fails with the ParsingError "Invalid header.", an input of fewer than 5
\* bytes fails with the ParsingError "Unable to parse header.", and an input
\* that starts with "PATCH" raises neither.
C10_HeaderErrors ==
    /\ HeaderOutcome(pcM, resM)
    /\ HeaderOutcome(pcS, resS)

\* both calls have refused a header of 5 bytes that is not "PATCH"
C10_Witness ==
    /\ Len(input) >= Len(HEADER)
    /\ SubSeq(input, 1, Len(HEADER)) = << 80, 65, 84, 84, 72 >>
    /\ pcS = "failed" /\ IsParsingError(resS, "Invalid header.")
    /\ pcM = "failed" /\ IsParsingError(resM, "Invalid header.")

-----------------------------------------------------------------------------
(* C11 *)

\* the bytes a hunk takes on the wire
WireLen(h) == IF h.type = "Regular" THEN 5 + Len(h.payload) ELSE 8

\* the number of bytes before hunk i of hunks (5 for the header)
RECURSIVE WireStart(_, _)
WireStart(hunks, i) ==
    IF i = 1 THEN 5 ELSE WireStart(hunks, i - 1) + WireLen(hunks[i - 1])

\* the two bytes after position pos of bytes b, big-endian
U16In(b, pos) == b[pos + 1] * 256 + b[pos + 2]

\* the three bytes after position pos of bytes b, big-endian
U24In(b, pos) == b[pos + 1] * 65536 + b[pos + 2] * 256 + b[pos + 3]

\* hunk h stands at position s of bytes b
HunkAt(b, s, h) ==
    /\ U24In(b, s) = h.offset % 16777216
    /\ h.type = "Regular" =>
          /\ U16In(b, s + 3) = h.length
          /\ SubSeq(b, s + 6, s + 5 + Len(h.payload)) = h.payload
    /\ h.type = "RLE" =>
          /\ U16In(b, s + 3) = 0
          /\ U16In(b, s + 5) = h.run_length
          /\ b[s + 8] = h.payload

\* C11: IPSPatch::write emits "PATCH", each hunk in sequence order as
\* offset(3) length(2) payload or offset(3) 0x0000 run_length(2) payload(1),
\* big-endian, then "EOF", then the 3-byte big-endian truncate if and only
\* if the patch has one, and nothing else.
C11_WriteLayout ==
    phase = "written" =>
        LET n == Len(patch.hunks)
            e == WireStart(patch.hunks, n + 1)
        IN /\ \A i \in 1..Len(written) : written[i] \in 0..255
           /\ SubSeq(written, 1, 5) = << 80, 65, 84, 67, 72 >>
           /\ \A i \in 1..n : HunkAt(written, WireStart(patch.hunks, i), patch.hunks[i])
           /\ SubSeq(written, e + 1, e + 3) = << 69, 79, 70 >>
           /\ patch.truncate = None => Len(written) = e + 3
           /\ patch.truncate # None =>
                 /\ Len(written) = e + 6
                 /\ U24In(written, e + 3) = patch.truncate[1] % 16777216

\* a patch of a run, a literal hunk and a truncate has been written
C11_Witness ==
    /\ phase = "written"
    /\ patch = IPSPatch(<< RLE(1, 3, 10), Regular(2, 2, << 11, 12 >>) >>, Some(66051))
    /\ written = << 80, 65, 84, 67, 72,
                    0, 0, 1, 0, 0, 0, 3, 10,
                    0, 0, 2, 0, 2, 11, 12,
                    69, 79, 70,
                    1, 2, 3 >>

-----------------------------------------------------------------------------
(* C12 *)

\* the second IPSPatch::apply has returned
ApplyAgainReturned == pcR \in { "done", "aborted" }

\* C12: applying the same patch a second time, to the target the first
\* IPSPatch::apply has left, succeeds and leaves the bytes and the length
\* the first apply left - whatever the hunks (overlapping, past the end of
\* the target) and the truncate.
C12_ApplyTwiceIsApplyOnce ==
    ApplyAgainReturned =>
        /\ pcR = "done"
        /\ resR = ResultOk
        /\ targetR = targetM

\* a run, a literal hunk past the end of the target and a truncate that cuts
\* it off again have been applied twice
C12_Witness ==
    /\ pcR = "done"
    /\ idxR = 2
    /\ parsed = IPSPatch(<< RLE(1, 3, 10), Regular(5, 1, << 14 >>) >>, Some(3))
    /\ target0 = << 0, 1, 2, 3 >>
    /\ targetM = << 0, 10, 10 >>
    /\ targetR = << 0, 10, 10 >>

-----------------------------------------------------------------------------
(* C13 *)

\* the call has returned an error because a read of the source or an
\* operation of the target failed: every error but the header mismatch,
\* which is raised on bytes that were read
IoFailure(res) == res.tag = "Err" /\ res.description # "Invalid header."

\* C13 as stated: every error returned because an underlying I/O operation
\* failed (a short or failed read of the header, offset, length, run length,
\* run payload, literal payload or truncate; a failed seek, write or
\* truncate of the target) carries that I/O failure as its source.
C13_IoErrorsCarrySource ==
    /\ IoFailure(resS) => resS.source # NoSource
    /\ IoFailure(resM) => resM.source # NoSource
    /\ IoFailure(resR) => resR.source # NoSource

-----------------------------------------------------------------------------
(* C14 *)

\* the seek or the write of hunk h fails on the target of the session
HunkFails(h) ==
    \/ targetFault.op = "seek" /\ h.offset > targetFault.limit
    \/ targetFault.op = "write" /\ HunkLen(h) > 0
          /\ h.offset + HunkLen(h) > targetFault.limit

\* what apply_ips_patch reads at this step
StreamRead == try_read(Src, rposS)

\* nothing is undone by a failed hunk h: no byte is dropped, every byte
\* outside the range of h is as before, and a failed seek changes nothing
NotRolledBack(h, before, after) ==
    /\ Len(after) >= Len(before)
    /\ \A p \in 0..(Len(before) - 1) :
          ~Covers(h, p) => after[p + 1] = before[p + 1]
    /\ targetFault.op = "seek" => after = before

\* C14: when the seek or the write of the k-th hunk fails, IPSPatch::apply
\* and apply_ips_patch return a PatchingError at that step; the k-1 hunks
\* applied before stay applied (nothing is rolled back); and once the call
\* has failed the target is never touched again: no later hunk, no truncate.
C14_ApplyFailureIsTerminal ==
    [][ /\ ( /\ pcM = "apply"
             /\ idxM < Len(parsed.hunks)
             /\ HunkFails(parsed.hunks[idxM + 1]) )
           => /\ pcM' = "aborted"
              /\ IsPatchingError(resM')
              /\ idxM' = idxM
              /\ NotRolledBack(parsed.hunks[idxM + 1], targetM, targetM')
        /\ ( /\ pcS = "hunks"
             /\ StreamRead.tag = "Hunk"
             /\ HunkFails(StreamRead.hunk) )
           => /\ pcS' = "failed"
              /\ IsPatchingError(resS')
              /\ appliedS' = appliedS
              /\ NotRolledBack(StreamRead.hunk, targetS, targetS')
        /\ pcM = "aborted" => UNCHANGED << pcM, idxM, targetM, tposM, resM >>
        /\ pcS = "failed" => UNCHANGED << pcS, appliedS, targetS, tposS, resS >>
      ]_vars

\* on a target whose seek fails past byte 1, the run at 1 has been applied
\* and the literal hunk at 2 has failed, in both paths: the run's bytes are
\* there and the truncate to 3 has not cut the target
C14_Witness ==
    /\ targetFault.op = "seek"
    /\ parsed.hunks = << RLE(1, 3, 10), Regular(2, 2, << 11, 12 >>) >>
    /\ input = written /\ patch.truncate = Some(3)
    /\ pcM = "aborted" /\ idxM = 1
    /\ resM = ErrorNew("PatchingError", "Unable to apply ips regular hunk.")
    /\ targetM = << 0, 10, 10, 10 >>
    /\ pcS = "failed" /\ resS = resM
    /\ appliedS = << RLE(1, 3, 10) >>
    /\ targetS = << 0, 10, 10, 10 >>

-----------------------------------------------------------------------------
(* C15 *)

\* the hunks stand in the input one after the other from byte 5, whole, and
\* each is the variant its 16-bit field says: a run exactly when the field
\* is 0, then with the 2-byte run length and the payload byte that follow;
\* a literal hunk otherwise, with the field as its length (not 0) and the
\* length bytes that follow as its payload
ReadAsFieldSays(hunks) ==
    \A i \in 1..Len(hunks) :
        LET h == hunks[i]
            at == WireStart(hunks, i)
            field == U16In(input, at + 3)
        IN /\ at + WireLen(h) <= Len(input)
           /\ h.offset = U24In(input, at)
           /\ (h.type = "RLE") <=> (field = 0)
           /\ h.type = "RLE" =>
                 /\ h.run_length = U16In(input, at + 5)
                 /\ h.payload = input[at + 8]
           /\ h.type = "Regular" =>
                 /\ h.length = field
                 /\ h.length # 0
                 /\ Len(h.payload) = h.length
                 /\ h.payload = SubSeq(input, at + 6, at + 5 + h.length)

\* the hunk that starts at position at of the input lacks bytes: its offset
\* and its field are there, the offset is not the EOF marker, and the input
\* ends before the bytes the field asks for
HunkCutShort(at) ==
    /\ Len(input) >= at + 5
    /\ U24In(input, at) # EOFValue
    /\ Len(input) < at + (IF U16In(input, at + 3) = 0 THEN 8
                          ELSE 5 + U16In(input, at + 3))

\* the input starts with the header
HeaderGood ==
    /\ Len(input) >= Len(HEADER)
    /\ SubSeq(input, 1, Len(HEADER)) = << 80, 65, 84, 67, 72 >>

\* where the hunk after those read_from has read starts in the input
NextHunkAt == WireStart(parsed.hunks, Len(parsed.hunks) + 1)

\* the ParsingErrors of a hunk that lacks bytes
CutShortErrors ==
    { "Unable to read payload.", "Unable to read RLE run length.",
      "Unable to read RLE payload." }

\* C15: the variant of a hunk is decided by the 16-bit field after the
\* offset alone: every hunk read_from (and apply_ips_patch) has read is a
\* run exactly when that field was 0, a literal hunk has a length that is
\* not 0 and a payload of exactly length bytes; when bytes are missing (the
\* input ends inside the hunk) the call fails with the ParsingError of the
\* run length, run payload or payload, it never yields a shorter hunk.
C15_VariantByLengthField ==
    /\ ReadAsFieldSays(parsed.hunks)
    /\ ReadAsFieldSays(appliedS)
    /\ pcM = "hunks" => rposM = NextHunkAt
    /\ (pcM = "failed" /\ HeaderGood /\ HunkCutShort(NextHunkAt)
            /\ Readable(Len(input))) =>
          /\ resM.kind = "ParsingError"
          /\ resM.description \in CutShortErrors

\* a literal hunk written with a length field of 0 has come back as a run,
\* and the literal hunk after it as a literal hunk
C15_Witness ==
    /\ ExactSource /\ ReadFromOk
    /\ patch.hunks = << Regular(0, 0, << 0, 2, 9 >>), Regular(2, 2, << 11, 12 >>) >>
    /\ parsed.hunks = << RLE(0, 2, 9), Regular(2, 2, << 11, 12 >>) >>

-----------------------------------------------------------------------------
(* C16 *)

\* how far read_from is in its pass: ExpectHeader, ReadingHunks, returned
PassRank(pc) ==
    CASE pc = "idle" -> 0
      [] pc = "header" -> 1
      [] pc = "hunks" -> 2
      [] OTHER -> 3

\* one forward pass: the states follow ExpectHeader -> ReadingHunks ->
\* returned, the position in the input never goes back and never passes the
\* end, the header is the first 5 bytes, and every turn of the loop that
\* does not return consumes bytes - so that the loop takes fewer turns than
\* the input has bytes
ForwardPass ==
    /\ PassRank(pcM') >= PassRank(pcM)
    /\ rposM' >= rposM
    /\ rposM' <= Len(input')
    /\ (pcM = "header" /\ pcM' # "header") =>
          /\ pcM' \in { "hunks", "failed" }
          /\ pcM' = "hunks" => (rposM = 0 /\ rposM' = Len(HEADER))
    /\ (pcM = "hunks" /\ pcM' = "hunks") => rposM' > rposM
    /\ (pcM = "hunks" /\ pcM' # "hunks") => pcM' \in { "apply", "failed" }

\* read_from has returned a patch only after "PATCH", the hunks of the
\* patch, whole and one after the other, and then the 3 bytes "EOF"; the
\* reader is then past the truncate, or at the end of an input that has
\* fewer than 3 bytes after the marker
OkOnlyAfterMarker ==
    ReadFromOk =>
        LET e == WireStart(parsed.hunks, Len(parsed.hunks) + 1)
        IN /\ Len(input) >= e + 3
           /\ SubSeq(input, 1, 5) = << 80, 65, 84, 67, 72 >>
           /\ SubSeq(input, e + 1, e + 3) = << 69, 79, 70 >>
           /\ rposM = Min(Len(input), e + 6)

\* an input that ends where the next offset should be read, before any EOF
\* marker, is refused with the ParsingError of the offset
EndBeforeMarkerFails ==
    /\ pcM = "failed" => resM.kind = "ParsingError"
    /\ (pcM = "failed" /\ HeaderGood /\ Len(input) < NextHunkAt + 3
            /\ Readable(Len(input))) =>
          /\ IsParsingError(resM, "Unable to parse offset.")
          /\ rposM = Len(input)

\* C16: read_from is one forward pass over the input (ExpectHeader ->
\* ReadingHunks -> returned, bytes consumed monotonically and never re-read);
\* it returns a patch only when, after a valid header and zero or more whole
\* hunks, a 3-byte offset equal to "EOF" was read; an input that ends before
\* the marker is a ParsingError.  Termination is the bound of the pass: a
\* turn of the loop returns or moves the position forward, and the position
\* never passes the end of the input.
C16_ReadFromTerminates ==
    /\ [][ForwardPass]_vars
    /\ [](OkOnlyAfterMarker /\ EndBeforeMarkerFails)

\* read_from has returned the patch of a run and a literal hunk at the last
\* byte of an input that ends with the EOF marker
C16_Witness ==
    /\ ExactSource /\ ReadFromOk
    /\ parsed = IPSPatch(<< RLE(1, 3, 10), Regular(2, 2, << 11, 12 >>) >>, None)
    /\ Len(input) = 23
    /\ rposM = Len(input)
    /\ SubSeq(input, 21, 23) = << 69, 79, 70 >>

-----------------------------------------------------------------------------
(* C17 *)

\* the input is shorter than the header or does not start with it
BadHeaderInput ==
    \/ Len(input) < Len(HEADER)
    \/ SubSeq(input, 1, Len(HEADER)) # << 80, 65, 84, 67, 72 >>

\* apply_ips_patch has not touched its target: bytes, length and position
\* are those before the call, and no hunk was applied
TargetUntouchedS ==
    /\ targetS = target0
    /\ tposS = 0
    /\ appliedS = << >>

\* C17: when apply_ips_patch fails on the header (an input shorter than 5
\* bytes, or whose first 5 bytes are not "PATCH"), it has done no seek, write
\* or truncate on the target: its bytes, length and position are as before
\* the call.
C17_HeaderFailureLeavesTarget ==
    /\ (phase = "run" /\ StreamReturned /\ BadHeaderInput) =>
          (pcS = "failed" /\ TargetUntouchedS)
    /\ (pcS = "failed"
            /\ resS.description \in { "Unable to parse header.", "Invalid header." }) =>
          TargetUntouchedS

\* apply_ips_patch has refused the 2 bytes "PA" on a target of 4 bytes
C17_Witness ==
    /\ input = << 80, 65 >>
    /\ pcS = "failed"
    /\ IsParsingError(resS, "Unable to parse header.")
    /\ target0 = << 0, 1, 2, 3 >>
    /\ targetS = << 0, 1, 2, 3 >>
    /\ tposS = 0

====
